---- MODULE Spec2Model ----
(***************************************************************************)
(* A model of epub2md.py and md2epub.py.                                   *)
(*                                                                         *)
(* Text is a sequence of one-character strings, so that splitting,         *)
(* joining, stripping and replacing are computed character by character,   *)
(* as the Python string methods compute them.                              *)
(***************************************************************************)
EXTENDS Integers, Sequences, FiniteSets, TLC

VARIABLES
    pc,         \* the step the running tool has reached
    content,    \* md2epub: the Markdown text read from md_path
    chapters,   \* md2epub: the list split_into_chapters returned
    name,       \* slugify: its argument name
    fallback,   \* slugify: its argument fallback
    slug,       \* slugify: the string it returned
    docs,       \* epub2md: the ids of the book's document items, in native order
    spine,      \* epub2md: book.spine
    spineOut,   \* epub2md: what iterating iter_spine_items(book) gave
    metas,      \* epub2md: book.get_metadata("OPF", "meta")
    images,     \* epub2md: the book's image items, in native order
    cover,      \* epub2md: the position in images of the item detect_cover_item returned
    imgdir,     \* epub2md: the name of the image subdirectory
    image_map,  \* epub2md: the mapping export_images returned, in insertion order
    written,    \* epub2md: the files export_images wrote, in the order written
    html,       \* epub2md: the content of a document item
    rewritten,  \* epub2md: what rewrite_img_paths_in_html returned for html
    md_exists,  \* md2epub: whether the input file exists
    epub_file,  \* md2epub: the package written to epub_path, if any
    error,      \* md2epub: whether convert_md_to_epub raised
    exit_code,  \* md2epub: the exit code of the tool, -1 while it runs
    frags,          \* epub2md: the content of each document item, by id
    split,          \* epub2md: args.split
    extract_images, \* epub2md: not args.no_images
    cover_banner,   \* epub2md: not args.no_cover_banner
    out,            \* epub2md: what was written to md_path, one entry per write
    chapter_files,  \* epub2md: the chapter files written to outdir, in order
    index,          \* epub2md: index.md, once written
    count,          \* epub2md: the chapter count returned, -1 before
    crashed,        \* epub2md: whether the conversion ended in an exception
    matches,        \* md2epub: the image paths re.findall found, in order
    on_disk,        \* md2epub: the paths at which os.path.exists is true
    md_image_map,   \* md2epub: image_map of collect_images_from_markdown
    next_match      \* md2epub: the position in matches of the next iteration

splitVars == <<content, chapters>>
slugVars == <<name, fallback, slug>>
spineVars == <<docs, spine, spineOut>>
coverVars == <<metas, images, cover>>
exportVars == <<imgdir, image_map, written, html, rewritten>>
mdVars == <<md_exists, epub_file, error, exit_code>>
convVars ==
    <<frags, split, extract_images, cover_banner, out, chapter_files, index, count, crashed>>
collectVars == <<matches, on_disk, md_image_map, next_match>>
vars ==
    <<pc, splitVars, slugVars, spineVars, coverVars, exportVars, mdVars, convVars,
      collectVars>>

(***************************************************************************)
(* Bounds of the model.                                                    *)
(***************************************************************************)
MaxLines == 5
MaxNameLen == 3
MaxDocs == 3
MaxSpine == 3
MaxMetas == 2
MaxImages == 3
MaxBodyLines == 3
MaxFrags == 2
MaxRefs == 2
MaxAssets == 2
MaxMatches == 3

(***************************************************************************)
(* Python string helpers.                                                  *)
(***************************************************************************)
NL == "\n"

\* \s of the re module, over the characters the model uses
IsSpace(c) == c \in {" ", "\t", NL}

RECURSIVE Flatten(_)
\* ''.join(parts)
Flatten(parts) ==
    IF parts = <<>> THEN <<>> ELSE Head(parts) \o Flatten(Tail(parts))

RECURSIVE Join(_, _)
\* sep.join(parts)
Join(sep, parts) ==
    IF parts = <<>> THEN <<>>
    ELSE IF Len(parts) = 1 THEN parts[1]
    ELSE parts[1] \o sep \o Join(sep, Tail(parts))

RECURSIVE SplitAcc(_, _, _)
SplitAcc(s, sep, cur) ==
    IF s = <<>> THEN <<cur>>
    ELSE IF Head(s) = sep THEN <<cur>> \o SplitAcc(Tail(s), sep, <<>>)
    ELSE SplitAcc(Tail(s), sep, Append(cur, Head(s)))

\* s.split(sep) for a one-character separator: always at least one part
Split(s, sep) == SplitAcc(s, sep, <<>>)

RECURSIVE LStrip(_)
LStrip(s) == IF s # <<>> /\ IsSpace(Head(s)) THEN LStrip(Tail(s)) ELSE s

RECURSIVE RStrip(_)
RStrip(s) ==
    IF s # <<>> /\ IsSpace(s[Len(s)]) THEN RStrip(SubSeq(s, 1, Len(s) - 1)) ELSE s

\* s.strip()
Strip(s) == RStrip(LStrip(s))

\* str(n) for the small numbers a chapter counter takes
Digit(d) == <<"0", "1", "2", "3", "4", "5", "6", "7", "8", "9">>[d + 1]

RECURSIVE Str(_)
Str(n) == IF n < 10 THEN <<Digit(n)>> ELSE Str(n \div 10) \o <<Digit(n % 10)>>

(***************************************************************************)
(* md2epub.split_into_chapters                                             *)
(***************************************************************************)
\* an Optional[str]
None == [isNone |-> TRUE, val |-> <<>>]
Some(s) == [isNone |-> FALSE, val |-> s]
Truthy(o) == ~o.isNone /\ o.val # <<>>

base_title == <<"C", "h", "a", "p", "i", "t", "r", "e">>

\* the number of leading '#' of a line
RECURSIVE Hashes(_)
Hashes(line) == IF line # <<>> /\ Head(line) = "#" THEN 1 + Hashes(Tail(line)) ELSE 0

\* re.match(r'^(#{1,2})\s+(.+)$', line): one or two '#', then white space,
\* then at least one more character
HeadingMatch(line) ==
    LET h == Hashes(line) IN
    /\ h \in {1, 2}
    /\ Len(line) >= h + 2
    /\ IsSpace(line[h + 1])

\* match.group(2).strip()
HeadingTitle(line) == Strip(SubSeq(line, Hashes(line) + 1, Len(line)))

\* title = current_title or f"{base_title} {chapter_num}"
ChapterTitle(st) ==
    IF Truthy(st.current_title) THEN st.current_title.val
    ELSE base_title \o <<" ">> \o Str(st.chapter_num)

SplitStart ==
    [chapters |-> <<>>, current_chapter |-> <<>>, current_title |-> None,
     chapter_num |-> 1, found_first_title |-> FALSE]

\* current_chapter = [line]: the chapter a heading line opens
OpenChapter(st, line) == <<line>>

ChapterBody_Concat(lines) == Flatten(lines)
\* '\n'.join(current_chapter): the text of a chapter, from its lines
ChapterBody(lines) == Join(<<NL>>, lines)

\* one iteration of "for line in lines"
SplitLine(st, line) ==
    IF HeadingMatch(line)
    THEN IF ~st.found_first_title
         THEN [st EXCEPT !.found_first_title = TRUE,
                         !.current_title = Some(HeadingTitle(line)),
                         !.current_chapter = OpenChapter(st, line)]
         ELSE LET saved ==
                    IF st.current_chapter # <<>>
                    THEN [st EXCEPT
                            !.chapters = Append(@, [title |-> ChapterTitle(st),
                                                    body |-> ChapterBody(st.current_chapter)]),
                            !.chapter_num = @ + 1]
                    ELSE st
              IN [saved EXCEPT !.current_title = Some(HeadingTitle(line)),
                               !.current_chapter = OpenChapter(st, line)]
    ELSE [st EXCEPT !.current_chapter = Append(@, line)]

RECURSIVE SplitLoop(_, _)
SplitLoop(st, lines) ==
    IF lines = <<>> THEN st ELSE SplitLoop(SplitLine(st, Head(lines)), Tail(lines))

\* split_into_chapters(content): a list of (title, content) pairs
split_into_chapters(text) ==
    LET st == SplitLoop(SplitStart, Split(text, NL))
        flushed ==
            IF st.current_chapter # <<>>
            THEN Append(st.chapters, [title |-> ChapterTitle(st),
                                      body |-> ChapterBody(st.current_chapter)])
            ELSE st.chapters
    IN IF flushed = <<>>
       THEN <<[title |-> base_title \o <<" ", "1">>, body |-> text]>>
       ELSE flushed

(***************************************************************************)
(* The Markdown texts the splitter is run on: up to MaxLines lines.        *)
(***************************************************************************)
L_A == <<"#", " ", "A">>
L_B == <<"#", "#", " ", "B">>
L_C == <<"#", "#", "#", " ", "C">>
L_hello == <<"h", "e", "l", "l", "o">>
L_world == <<"w", "o", "r", "l", "d">>
L_empty == <<>>

MdLines == {L_A, L_B, L_C, L_hello, L_world, L_empty}

MdTexts == {Join(<<NL>>, ls) : ls \in UNION {[1..n -> MdLines] : n \in 1..MaxLines}}

SplitIdle == content = <<>> /\ chapters = <<>>
SlugIdle == name = <<>> /\ fallback = <<>> /\ slug = <<>>
SpineIdle == docs = <<>> /\ spine = <<>> /\ spineOut = <<>>
CoverIdle == metas = <<>> /\ images = <<>> /\ cover = 0
NoFile == [exists |-> FALSE, spine |-> <<>>, toc |-> <<>>, nav |-> <<>>]
MdIdle == md_exists = FALSE /\ epub_file = NoFile /\ error = FALSE /\ exit_code = -1
ExportIdle ==
    imgdir = <<>> /\ image_map = <<>> /\ written = <<>> /\ html = <<>> /\ rewritten = <<>>
NoIndex == [exists |-> FALSE, writes |-> <<>>]
ConvIdle ==
    /\ frags = <<>> /\ split = FALSE /\ extract_images = FALSE /\ cover_banner = FALSE
    /\ out = <<>> /\ chapter_files = <<>> /\ index = NoIndex /\ count = -1
    /\ crashed = FALSE
CollectIdle ==
    matches = <<>> /\ on_disk = {} /\ md_image_map = <<>> /\ next_match = 1

InitSplit ==
    /\ pc = "start"
    /\ content \in MdTexts
    /\ chapters = <<>>
    /\ SlugIdle /\ SpineIdle /\ CoverIdle /\ ExportIdle /\ MdIdle
    /\ ConvIdle /\ CollectIdle

\* chapters = split_into_chapters(content)
DoSplit ==
    /\ pc = "start"
    /\ chapters' = split_into_chapters(content)
    /\ pc' = "split"
    /\ UNCHANGED <<convVars, collectVars, content, slugVars, spineVars, coverVars, exportVars, mdVars>>

NextSplit == DoSplit

SpecSplit == InitSplit /\ [][NextSplit]_vars

(***************************************************************************)
(* Claims about split_into_chapters.                                       *)
(***************************************************************************)
Bodies == [k \in 1..Len(chapters) |-> chapters[k].body]

\* "# A\nhello\n## B\nworld\n"
ExampleText == Join(<<NL>>, <<L_A, L_hello, L_B, L_world, L_empty>>)

\* the lines of a text from its first heading line on; all of them when
\* it has no heading line
RECURSIVE FromFirstHeading(_)
FromFirstHeading(lines) ==
    IF lines = <<>> \/ HeadingMatch(Head(lines)) THEN lines
    ELSE FromFirstHeading(Tail(lines))

KeptLines(text) ==
    LET lines == Split(text, NL)
    IN IF \E i \in 1..Len(lines) : HeadingMatch(lines[i])
       THEN FromFirstHeading(lines) ELSE lines

ChapterLines(k) == Split(chapters[k].body, NL)
AllChapterLines == Flatten([k \in 1..Len(chapters) |-> ChapterLines(k)])

\* C2: every input line is in exactly one chapter, the one opened by the
\* latest level-1 or level-2 heading line at or before it; the lines before
\* the first heading line are in chapter 1.
C2_Claim ==
    pc = "split" =>
        /\ AllChapterLines = Split(content, NL)
        /\ \A k \in 1..Len(chapters) :
             /\ k > 1 => HeadingMatch(ChapterLines(k)[1])
             /\ \A j \in 2..Len(ChapterLines(k)) : ~HeadingMatch(ChapterLines(k)[j])

(***************************************************************************)
(* epub2md.slugify                                                         *)
(***************************************************************************)
\* str.lower(), over the characters the model uses; "e^" and "E^" stand for
\* an accented letter (one character, as "\u00e9" and "\u00c9" are)
LowerChar(c) ==
    CASE c = "A" -> "a" [] c = "C" -> "c" [] c = "E^" -> "e^" [] OTHER -> c
Lower(s) == [i \in 1..Len(s) |-> LowerChar(s[i])]

\* \w with re.UNICODE: letters of any script, digits, the underscore
LowerLetters == {"a", "b", "c", "e", "h", "i", "p", "r", "t", "e^"}
UpperLetters == {"A", "C", "E^"}
DigitChars == {"0", "1", "2", "3", "4", "5", "6", "7", "8", "9"}
IsWord(c) == c \in LowerLetters \cup UpperLetters \cup DigitChars \cup {"_"}

RECURSIVE CollapseSpaces(_)
\* re.sub(r"\s+", " ", s)
CollapseSpaces(s) ==
    IF s = <<>> THEN <<>>
    ELSE IF IsSpace(Head(s)) THEN <<" ">> \o CollapseSpaces(LStrip(s))
    ELSE <<Head(s)>> \o CollapseSpaces(Tail(s))

\* re.sub(r"[^\w\s-]", "", s, flags=re.UNICODE)
RemoveNonWord(s) == SelectSeq(s, LAMBDA c : IsWord(c) \/ IsSpace(c) \/ c = "-")

\* s.replace(" ", "-")
SpacesToHyphens(s) == [i \in 1..Len(s) |-> IF s[i] = " " THEN "-" ELSE s[i]]

RECURSIVE SkipHyphens(_)
SkipHyphens(s) == IF s # <<>> /\ Head(s) = "-" THEN SkipHyphens(Tail(s)) ELSE s

CollapseHyphens_Skip(s) == s
RECURSIVE CollapseHyphens(_)
\* re.sub(r"-+", "-", s)
CollapseHyphens(s) ==
    IF s = <<>> THEN <<>>
    ELSE IF Head(s) = "-" THEN <<"-">> \o CollapseHyphens(SkipHyphens(s))
    ELSE <<Head(s)>> \o CollapseHyphens(Tail(s))

\* slugify(name, fallback)
slugify(nm, fb) ==
    LET n1 == CollapseSpaces(Strip(nm))
        n2 == IF n1 = <<>> THEN fb ELSE n1
        n3 == Lower(n2)
        n4 == RemoveNonWord(n3)
        n5 == SpacesToHyphens(Strip(n4))
        n6 == CollapseHyphens(n5)
    IN IF n6 = <<>> THEN fb ELSE n6

\* the characters of the names and fallbacks slugify is given
SlugChars == {"a", "A", "e^", "1", "_", "-", " ", "\t", "!"}

SlugNames == UNION {[1..n -> SlugChars] : n \in 0..MaxNameLen}

\* "chapitre" (the default), and f"{prefix}-{chapter_num:02d}" for some prefixes
SlugFallbacks ==
    {<<"c", "h", "a", "p", "i", "t", "r", "e">>,
     <<"a", "-", "0", "1">>,
     <<"A", "-", "0", "1">>,
     <<"a", "\t", "A", "-", "0", "1">>,
     <<"-", "0", "1">>}

InitSlug ==
    /\ pc = "start"
    /\ name \in SlugNames
    /\ fallback \in SlugFallbacks
    /\ slug = <<>>
    /\ SplitIdle /\ SpineIdle /\ CoverIdle /\ ExportIdle /\ MdIdle
    /\ ConvIdle /\ CollectIdle

\* slug = slugify(name, fallback)
DoSlugify ==
    /\ pc = "start"
    /\ slug' = slugify(name, fallback)
    /\ pc' = "slugified"
    /\ UNCHANGED <<convVars, collectVars, name, fallback, splitVars, spineVars, coverVars, exportVars, mdVars>>

NextSlug == DoSlugify

SpecSlug == InitSlug /\ [][NextSlug]_vars

(***************************************************************************)
(* Claims about slugify.                                                   *)
(***************************************************************************)
NoDoubleHyphen(s) == \A i \in 1..(Len(s) - 1) : ~(s[i] = "-" /\ s[i + 1] = "-")

\* ^[a-z0-9]+(-[a-z0-9]+)*$
MatchesSlugPattern(s) ==
    /\ s # <<>>
    /\ \A i \in 1..Len(s) : s[i] \in (LowerLetters \ {"e^"}) \cup DigitChars \cup {"-"}
    /\ s[1] # "-" /\ s[Len(s)] # "-"
    /\ NoDoubleHyphen(s)

\* lowercase word characters (letters of any script, digits, underscore)
\* and hyphens, no two hyphens in a row
IsWordSlug(s) ==
    /\ s # <<>>
    /\ \A i \in 1..Len(s) : s[i] \in LowerLetters \cup DigitChars \cup {"_", "-"}
    /\ NoDoubleHyphen(s)

IsBlank(s) == \A i \in 1..Len(s) : IsSpace(s[i])

NoIdref == 0
UnknownId == MaxDocs + 1

DocIds(ds) == {ds[i] : i \in 1..Len(ds)}

\* idref = meta.get("idref") / idref = spine_entry
EntryIdref(entry) == entry.ref

\* meta.get("idref") on a str: AttributeError
EntryRaises(entry) == entry.kind = "pair"

\* if idref and idref in idref_to_item
EntryResolves(ds, entry) ==
    EntryIdref(entry) # NoIdref /\ EntryIdref(entry) \in DocIds(ds)

RECURSIVE SpineLoop(_, _, _)
\* for spine_entry in book.spine
SpineLoop(ds, entries, st) ==
    IF entries = <<>> THEN st
    ELSE IF EntryRaises(Head(entries)) THEN [st EXCEPT !.raised = TRUE]
    ELSE IF EntryResolves(ds, Head(entries))
         THEN SpineLoop(ds, Tail(entries),
                        [st EXCEPT !.yielded = TRUE,
                                   !.items = Append(@, EntryIdref(Head(entries)))])
         ELSE SpineLoop(ds, Tail(entries), st)

\* the items a caller gets by iterating iter_spine_items(book) to its end,
\* and whether the iteration ended in an exception
iter_spine_items(ds, entries) ==
    LET st == SpineLoop(ds, entries, [items |-> <<>>, yielded |-> FALSE, raised |-> FALSE])
    IN IF ~st.raised /\ ~st.yielded
       THEN [st EXCEPT !.items = ds]
       ELSE st

SpineEntries ==
    [kind : {"idref", "pair"}, ref : 1..UnknownId]
        \cup [kind : {"meta"}, ref : (1..UnknownId) \cup {NoIdref}]

Books == {[i \in 1..n |-> i] : n \in 0..MaxDocs}

InitSpine ==
    /\ pc = "start"
    /\ docs \in Books
    /\ spine \in UNION {[1..n -> SpineEntries] : n \in 0..MaxSpine}
    /\ spineOut = <<>>
    /\ SplitIdle /\ SlugIdle /\ CoverIdle /\ ExportIdle /\ MdIdle
    /\ ConvIdle /\ CollectIdle

\* for item in iter_spine_items(book): ...
DoIterSpine ==
    /\ pc = "start"
    /\ spineOut' = iter_spine_items(docs, spine)
    /\ pc' = "iterated"
    /\ UNCHANGED <<convVars, collectVars, docs, spine, splitVars, slugVars, coverVars, exportVars, mdVars>>

NextSpine == DoIterSpine

SpecSpine == InitSpine /\ [][NextSpine]_vars

(***************************************************************************)
(* Claims about iter_spine_items.                                          *)
(***************************************************************************)
\* the fragment a spine entry names
Declared(entry) == entry.ref
NamesFragment(entry) == Declared(entry) \in DocIds(docs)

\* C3: when the spine has as many entries as the book has fragments and
\* every entry names a fragment, the fragments come in the declared order;
\* when no entry names a fragment, all fragments come in native order.
C3_Claim ==
    pc = "iterated" =>
        /\ (Len(spine) = Len(docs) /\ \A i \in 1..Len(spine) : NamesFragment(spine[i]))
             => (~spineOut.raised
                 /\ spineOut.items = [i \in 1..Len(spine) |-> Declared(spine[i])])
        /\ (\A i \in 1..Len(spine) : ~NamesFragment(spine[i]))
             => (~spineOut.raised /\ spineOut.items = docs)

\* the fragments the entries of the spine name, in declared order
Resolvable == SelectSeq(spine, NamesFragment)

TraversalAsClaimed ==
    /\ ~spineOut.raised
    /\ Resolvable # <<>> =>
         spineOut.items = [i \in 1..Len(Resolvable) |-> Declared(Resolvable[i])]
    /\ Resolvable = <<>> => spineOut.items = docs
    /\ docs # <<>> => spineOut.items # <<>>

\* C14: the traversal is the fragments of the entries that name one, in
\* declared order, the other entries being skipped; it is all fragments in
\* native order if and only if no entry names a fragment; it is not empty
\* when the book has a fragment.
C14_Claim == pc = "iterated" => TraversalAsClaimed

\* the same for spines without an (idref, linear) tuple
C14_WhenReadable ==
    (pc = "iterated" /\ \A i \in 1..Len(spine) : ~EntryRaises(spine[i]))
        => TraversalAsClaimed

(***************************************************************************)
(* epub2md.detect_cover_item                                               *)
(*                                                                         *)
(* An image item is a record [id, file_name, props].  An OPF meta entry    *)
(* is a record [kind, content]:                                            *)
(*   "cover"  attrs is a dict whose name is "cover" (in any case) and      *)
(*            whose content is content (<<>> when it has none);            *)
(*   "other"  attrs is not a dict, or its name is not "cover";             *)
(*   "bad"    the entry does not unpack into (value, attrs), or its name   *)
(*            is not a string: reading it raises.                          *)
(* detect_cover_item returns the position of an image item, 0 for None.    *)
(***************************************************************************)
Contains(s, sub) ==
    \E i \in 1..(Len(s) - Len(sub) + 1) : SubSeq(s, i, i + Len(sub) - 1) = sub

K_cover == <<"c", "o", "v", "e", "r">>
K_couverture == <<"c", "o", "u", "v", "e", "r", "t", "u", "r", "e">>
K_front == <<"f", "r", "o", "n", "t">>
K_titlepage == <<"t", "i", "t", "l", "e", "p", "a", "g", "e">>

\* the least position of a non-empty set of positions, 0 for the empty set:
\* the item at which a loop over the images returns
FirstOf(positions) ==
    IF positions = {} THEN 0
    ELSE CHOOSE i \in positions : \A j \in positions : i <= j

\* for it in book.get_items_of_type(ITEM_IMAGE): if it.id == cover_id: return it
ImageWithId(imgs, cover_id) ==
    FirstOf({i \in 1..Len(imgs) : imgs[i].id = cover_id})

RECURSIVE Tier1(_, _)
\* the loop over metas: [found, raised], found the position of the item returned
Tier1(ms, imgs) ==
    IF ms = <<>> THEN [found |-> 0, raised |-> FALSE]
    ELSE LET m == Head(ms) IN
         IF m.kind = "bad" THEN [found |-> 0, raised |-> TRUE]
         ELSE IF m.kind = "cover" /\ m.content # <<>> /\ ImageWithId(imgs, m.content) # 0
              THEN [found |-> ImageWithId(imgs, m.content), raised |-> FALSE]
              ELSE Tier1(Tail(ms), imgs)

\* props and ("cover-image" in props or "cover" in props)
HasCoverProperty(it) ==
    it.props # {} /\ ("cover-image" \in it.props \/ "cover" \in it.props)

Tier2(imgs) == FirstOf({i \in 1..Len(imgs) : HasCoverProperty(imgs[i])})

\* the test that makes an image item a candidate of the heuristic
IsCandidate(it) ==
    LET fn == Lower(it.file_name)
        iid == Lower(it.id)
    IN \/ \E k \in {K_cover, K_couverture, K_front, K_titlepage} : Contains(fn, k)
       \/ \E k \in {K_cover, K_couverture} : Contains(iid, k)

SortKey_Constant(it) == 0
\* key=lambda x: len(x.file_name or "z" * 999)
SortKey(it) == IF it.file_name = <<>> THEN 999 ELSE Len(it.file_name)

\* candidates.sort(key=...); return candidates[0]: the sort is stable, so
\* this is the first candidate among those of the least key
Tier3(imgs) ==
    LET cands == {i \in 1..Len(imgs) : IsCandidate(imgs[i])}
    IN IF cands = {} THEN 0
       ELSE CHOOSE i \in cands :
              \A j \in cands : \/ SortKey(imgs[i]) < SortKey(imgs[j])
                               \/ SortKey(imgs[i]) = SortKey(imgs[j]) /\ i <= j

\* tiers 2 and 3, which follow the try block
Tiers2And3(imgs) == IF Tier2(imgs) # 0 THEN Tier2(imgs) ELSE Tier3(imgs)

OnTier1Exception_Abort(imgs) == 0
\* except Exception: pass
OnTier1Exception(imgs) == Tiers2And3(imgs)

detect_cover_item(ms, imgs) ==
    LET t1 == Tier1(ms, imgs)
    IN IF t1.found # 0 THEN t1.found
       ELSE IF t1.raised THEN OnTier1Exception(imgs)
       ELSE Tiers2And3(imgs)

\* the image items of the books the model reads
F_cover_jpg == <<"c", "o", "v", "e", "r", ".", "j", "p", "g">>
F_cover_big_jpg == <<"c", "o", "v", "e", "r", "-", "b", "i", "g", ".", "j", "p", "g">>
F_img_front == <<"i", "m", "g", "/", "f", "r", "o", "n", "t">>
F_img_a_png == <<"i", "m", "g", "/", "a", ".", "p", "n", "g">>
F_b_a_png == <<"b", "/", "a", ".", "p", "n", "g">>
F_a_png == <<"a", ".", "p", "n", "g">>

Id_i1 == <<"i", "1">>
Id_i2 == <<"i", "2">>
Id_i3 == <<"i", "3">>
Id_Cover == <<"C", "o", "v", "e", "r">>
Id_i5 == <<"i", "5">>
Id_i6 == <<"i", "6">>
Id_unknown == <<"z", "z">>

ImageFiles ==
    {<<Id_i1, F_cover_jpg>>, <<Id_i2, F_cover_big_jpg>>, <<Id_i3, F_img_front>>,
     <<Id_Cover, F_img_a_png>>, <<Id_i5, F_b_a_png>>, <<Id_i6, F_a_png>>}

ImageItems ==
    {[id |-> f[1], file_name |-> f[2], props |-> p] :
        f \in ImageFiles, p \in {{}, {"cover-image"}}}

\* the items of a manifest have distinct ids and distinct file names
ImageLists ==
    {imgs \in UNION {[1..n -> ImageItems] : n \in 0..MaxImages} :
        \A i, j \in 1..Len(imgs) : i # j => imgs[i].id # imgs[j].id}

MetaEntries ==
    {[kind |-> "cover", content |-> c] : c \in {Id_i5, Id_unknown, <<>>}}
        \cup {[kind |-> "other", content |-> <<>>], [kind |-> "bad", content |-> <<>>]}

MetaLists == UNION {[1..n -> MetaEntries] : n \in 0..MaxMetas}

InitCover ==
    /\ pc = "start"
    /\ metas \in MetaLists
    /\ images \in ImageLists
    /\ cover = 0
    /\ SplitIdle /\ SlugIdle /\ SpineIdle /\ ExportIdle /\ MdIdle
    /\ ConvIdle /\ CollectIdle

\* cover_item = detect_cover_item(book)
DoDetectCover ==
    /\ pc = "start"
    /\ cover' = detect_cover_item(metas, images)
    /\ pc' = "detected"
    /\ UNCHANGED <<convVars, collectVars, metas, images, splitVars, slugVars, spineVars, exportVars, mdVars>>

NextCover == DoDetectCover

SpecCover == InitCover /\ [][NextCover]_vars

(***************************************************************************)
(* Claims about detect_cover_item.                                         *)
(***************************************************************************)
\* reading the meta entries up to entry k raises no exception
ReadableUpTo(k) == \A h \in 1..k : metas[h].kind # "bad"

\* a meta entry named "cover", read without an exception, whose content is
\* the id of image i
NamedByMeta(i) ==
    \E k \in 1..Len(metas) :
        /\ ReadableUpTo(k)
        /\ metas[k].kind = "cover"
        /\ metas[k].content # <<>>
        /\ metas[k].content = images[i].id

Tier1Finds == \E i \in 1..Len(images) : NamedByMeta(i)
Tier1RaisedFirst == ~Tier1Finds /\ \E k \in 1..Len(metas) : metas[k].kind = "bad"

Marked(i) == "cover-image" \in images[i].props \/ "cover" \in images[i].props
Tier2Finds == \E i \in 1..Len(images) : Marked(i)

Heuristic(i) == IsCandidate(images[i])
Tier3Finds == \E i \in 1..Len(images) : Heuristic(i)

\* C4: the result is tier 1's whenever tier 1 finds an image; it is tier
\* 2's only when tier 1 found nothing, and tier 3's only when tiers 1 and 2
\* found nothing; an exception in tier 1 counts as tier 1 finding nothing,
\* and tiers 2 and 3 are still evaluated.
C4_Fallback ==
    pc = "detected" =>
        /\ Tier1Finds => (cover # 0 /\ NamedByMeta(cover))
        /\ (~Tier1Finds /\ Tier2Finds) => (cover # 0 /\ Marked(cover))
        /\ (~Tier1Finds /\ ~Tier2Finds /\ Tier3Finds) => (cover # 0 /\ Heuristic(cover))
        /\ (~Tier1Finds /\ ~Tier2Finds /\ ~Tier3Finds) => cover = 0

C4_Witness ==
    /\ pc = "detected"
    /\ Tier1RaisedFirst
    /\ \E k \in 1..Len(metas) : metas[k].kind = "cover" /\ \E i \in 1..Len(images) : metas[k].content = images[i].id
    /\ Tier2Finds
    /\ cover # 0 /\ Marked(cover)

ChosenByHeuristic == pc = "detected" /\ ~Tier1Finds /\ ~Tier2Finds /\ cover # 0

\* C5: a cover chosen by the heuristic is the candidate with the shortest
\* file name (the item's file_name), the first in the order of the image
\* collection among those of that length; of the two candidates
\* "cover-big.jpg" and "cover.jpg" it is "cover.jpg".
C5_Shortest ==
    ChosenByHeuristic =>
        /\ Heuristic(cover)
        /\ \A j \in 1..Len(images) : Heuristic(j) =>
             \/ Len(images[cover].file_name) < Len(images[j].file_name)
             \/ Len(images[cover].file_name) = Len(images[j].file_name) /\ cover <= j
        /\ {images[j].file_name : j \in {h \in 1..Len(images) : Heuristic(h)}}
               = {F_cover_big_jpg, F_cover_jpg}
             => images[cover].file_name = F_cover_jpg

C5_Witness ==
    /\ ChosenByHeuristic
    /\ Len(images) = 3
    /\ images[1].file_name = F_cover_big_jpg
    /\ images[2].file_name = F_img_a_png
    /\ images[3].file_name = F_cover_jpg
    /\ cover = 2

(***************************************************************************)
(* epub2md.export_images and epub2md.rewrite_img_paths_in_html             *)
(*                                                                         *)
(* A dict is a sequence of [key, val] records in insertion order: setting  *)
(* a key the dict already has changes its value in place.  A path written  *)
(* is relative to outdir.                                                  *)
(***************************************************************************)
DictHas(d, k) == \E i \in 1..Len(d) : d[i].key = k

DictGet(d, k) == d[CHOOSE i \in 1..Len(d) : d[i].key = k].val

\* d[k] = v
DictSet(d, k, v) ==
    IF DictHas(d, k)
    THEN [i \in 1..Len(d) |-> IF d[i].key = k THEN [key |-> k, val |-> v] ELSE d[i]]
    ELSE Append(d, [key |-> k, val |-> v])

\* the position of the last c in s, 0 when s has none
LastIndexOf(s, c) ==
    IF \E i \in 1..Len(s) : s[i] = c
    THEN CHOOSE i \in 1..Len(s) : s[i] = c /\ \A j \in (i + 1)..Len(s) : s[j] # c
    ELSE 0

\* os.path.basename(p)
Basename(p) == SubSeq(p, LastIndexOf(p, "/") + 1, Len(p))

\* os.path.splitext(nm)[1], nm a base name: from its last dot on, unless
\* only dots precede that dot
Ext(nm) ==
    LET i == LastIndexOf(nm, ".")
    IN IF i = 0 \/ \A j \in 1..(i - 1) : nm[j] = "." THEN <<>>
       ELSE SubSeq(nm, i, Len(nm))

\* os.path.join(a, b), b a relative path
PathJoin(a, b) ==
    IF a = <<>> THEN b
    ELSE IF a[Len(a)] = "/" THEN a \o b
    ELSE a \o <<"/">> \o b

S_cover == <<"c", "o", "v", "e", "r">>
S_jpg == <<".", "j", "p", "g">>

\* if cover_src and item.file_name == cover_src
IsCoverItem(item, cover_src) == Truthy(cover_src) /\ item.file_name = cover_src.val

\* dst_name: cover.<ext> for the cover item, the base name for the others
DstName(item, cover_src) ==
    LET src_name == Basename(item.file_name)
    IN IF IsCoverItem(item, cover_src)
       THEN S_cover \o (IF Ext(src_name) = <<>> THEN S_jpg ELSE Ext(src_name))
       ELSE src_name

\* one iteration of "for item in book.get_items_of_type(ITEM_IMAGE)"
ExportItem(st, imgs, i, dir, cover_src) ==
    LET item == imgs[i]
        src_name == Basename(item.file_name)
        rel_path == PathJoin(dir, DstName(item, cover_src))
    IN [mapping |-> DictSet(DictSet(st.mapping, item.file_name, rel_path), src_name, rel_path),
        written |-> Append(st.written, [path |-> rel_path, item |-> i])]

RECURSIVE ExportLoop(_, _, _, _, _)
ExportLoop(st, imgs, i, dir, cover_src) ==
    IF i > Len(imgs) THEN st
    ELSE ExportLoop(ExportItem(st, imgs, i, dir, cover_src), imgs, i + 1, dir, cover_src)

\* export_images(book, outdir, imgdir): the mapping, and the files written
export_images(ms, imgs, dir) ==
    LET cover_item == detect_cover_item(ms, imgs)
        cover_src == IF cover_item # 0 THEN Some(imgs[cover_item].file_name) ELSE None
    IN ExportLoop([mapping |-> <<>>, written |-> <<>>], imgs, 1, dir, cover_src)

IsPrefix(p, s) == Len(p) <= Len(s) /\ SubSeq(s, 1, Len(p)) = p

RECURSIVE Replace(_, _, _)
\* s.replace(old, new), old not empty
Replace(s, old, new) ==
    IF s = <<>> THEN <<>>
    ELSE IF IsPrefix(old, s)
         THEN new \o Replace(SubSeq(s, Len(old) + 1, Len(s)), old, new)
         ELSE <<Head(s)>> \o Replace(Tail(s), old, new)

RECURSIVE rewrite_img_paths_in_html(_, _)
\* for href, newpath in image_map.items(): html = html.replace(href, newpath)
rewrite_img_paths_in_html(text, d) ==
    IF d = <<>> THEN text
    ELSE rewrite_img_paths_in_html(Replace(text, Head(d).key, Head(d).val), Tail(d))

D_images == <<"i", "m", "a", "g", "e", "s">>
D_img == <<"i", "m", "g">>

\* the default "images", and the directory name some books use themselves
ImgDirs == {D_images, D_img}

\* the text of a document item that refers to an image by ref
ImgTag(ref) == <<"s", "r", "c", "=", "'">> \o ref \o <<"'">>

\* the strings by which a document refers to an image item of the book:
\* its internal path or its bare base name
References(imgs) ==
    {imgs[i].file_name : i \in 1..Len(imgs)}
        \cup {Basename(imgs[i].file_name) : i \in 1..Len(imgs)}

InitExport ==
    /\ pc = "start"
    /\ metas \in {ms \in MetaLists : Len(ms) <= 1}
    /\ images \in ImageLists
    /\ cover = 0
    /\ imgdir \in ImgDirs
    /\ image_map = <<>> /\ written = <<>> /\ html = <<>> /\ rewritten = <<>>
    /\ SplitIdle /\ SlugIdle /\ SpineIdle /\ MdIdle
    /\ ConvIdle /\ CollectIdle

\* image_map = export_images(book, outdir, imgdir=imgdir)
DoExport ==
    /\ pc = "start"
    /\ cover' = detect_cover_item(metas, images)
    /\ image_map' = export_images(metas, images, imgdir).mapping
    /\ written' = export_images(metas, images, imgdir).written
    /\ pc' = "exported"
    /\ UNCHANGED <<convVars, collectVars, metas, images, imgdir, html, rewritten, splitVars, slugVars, spineVars,
                   mdVars>>

\* if image_map: html = rewrite_img_paths_in_html(html, image_map)
DoRewrite ==
    /\ pc = "exported"
    /\ image_map # <<>>
    /\ \E ref \in References(images) :
         /\ html' = ImgTag(ref)
         /\ rewritten' = rewrite_img_paths_in_html(ImgTag(ref), image_map)
    /\ pc' = "rewritten"
    /\ UNCHANGED <<convVars, collectVars, metas, images, cover, imgdir, image_map, written,
                   splitVars, slugVars, spineVars, mdVars>>

NextExport == DoExport \/ DoRewrite

SpecExport == InitExport /\ [][NextExport]_vars

(***************************************************************************)
(* Claims about export_images and rewrite_img_paths_in_html.               *)
(***************************************************************************)
Exported == pc \in {"exported", "rewritten"}

\* the path export_images wrote the content of image i to
WrittenTo(i) == written[CHOOSE w \in 1..Len(written) : written[w].item = i].path

\* imgdir/<name>, <name> without a directory part
InImgDir(path) ==
    /\ IsPrefix(imgdir \o <<"/">>, path)
    /\ Len(path) > Len(imgdir) + 1
    /\ \A j \in (Len(imgdir) + 2)..Len(path) : path[j] # "/"

\* C6: for each exported asset, the entry keyed by its internal path and
\* the entry keyed by its base name both hold the same path imgdir/<name>,
\* the path its content was written to.
C6_Claim ==
    Exported =>
        \A i \in 1..Len(images) :
            /\ DictHas(image_map, images[i].file_name)
            /\ DictHas(image_map, Basename(images[i].file_name))
            /\ DictGet(image_map, images[i].file_name) = WrittenTo(i)
            /\ DictGet(image_map, Basename(images[i].file_name)) = WrittenTo(i)
            /\ InImgDir(WrittenTo(i))

\* cover.<ext>, <ext> the extension of nm or .jpg when nm has none
CoverName(nm) == S_cover \o (IF Ext(nm) = <<>> THEN S_jpg ELSE Ext(nm))

\* C7: every value of the mapping is imgdir/<name>; the value under the
\* detected cover's internal path has base name cover.<ext>.
C7_Claim ==
    Exported =>
        /\ \A k \in 1..Len(image_map) : InImgDir(image_map[k].val)
        /\ cover # 0 =>
             Basename(DictGet(image_map, images[cover].file_name))
                = CoverName(Basename(images[cover].file_name))

\* C8: a reference to an exported asset, by internal path or by base name,
\* is rewritten to exactly the mapping's value for it.
C8_Claim ==
    pc = "rewritten" =>
        \A ref \in References(images) :
            html = ImgTag(ref) => rewritten = ImgTag(DictGet(image_map, ref))

(***************************************************************************)
(* md2epub.convert_md_to_epub and md2epub.main                             *)
(***************************************************************************)
L_rule == <<"-", "-", "-">>
L_title_X == <<"t", "i", "t", "l", "e", ":", " ", "X">>
L_spaces == <<" ", " ">>
\* a link reference definition, which Markdown renders as nothing
L_ref == <<"[", "a", "]", ":", " ", "b">>

\* the HTML of one line of Markdown: nothing for a blank line or a link
\* reference definition, a rule, a heading or a paragraph for the others
MdBlock(line) ==
    IF Strip(line) = <<>> \/ line = L_ref THEN <<>>
    ELSE IF line = L_rule THEN <<"<", "h", "r", "/", ">">>
    ELSE IF HeadingMatch(line)
         THEN <<"<", "h", Digit(Hashes(line)), ">">> \o HeadingTitle(line)
                \o <<"<", "/", "h", Digit(Hashes(line)), ">">>
    ELSE <<"<", "p", ">">> \o line \o <<"<", "/", "p", ">">>

\* markdown_to_html(content): md.convert(content), the blocks of its lines
markdown_to_html(text) ==
    LET lines == Split(text, NL)
        blocks == SelectSeq([i \in 1..Len(lines) |-> MdBlock(lines[i])],
                            LAMBDA b : b # <<>>)
    IN Join(<<NL>>, blocks)

\* f'chapter_{i:02d}.xhtml'
ChapterFileName(i) ==
    <<"c", "h", "a", "p", "t", "e", "r", "_">>
        \o (IF i < 10 THEN <<"0">> ELSE <<>>) \o Str(i)
        \o <<".", "x", "h", "t", "m", "l">>

ChapterIsEmpty_Never(ch) == FALSE
\* the two tests that make the loop skip a chapter
ChapterIsEmpty(ch) ==
    \/ Strip(ch.body) = <<>>
    \/ Strip(markdown_to_html(ch.body)) = <<>>

RECURSIVE ChapterItems(_, _)
\* for i, (chapter_title, chapter_content) in enumerate(chapters, 1):
\* the EpubHtml items appended to spine_items and toc_items
ChapterItems(chs, i) ==
    IF i > Len(chs) THEN <<>>
    ELSE IF ChapterIsEmpty(chs[i]) THEN ChapterItems(chs, i + 1)
    ELSE <<[title |-> chs[i].title,
            file_name |-> ChapterFileName(i),
            body |-> markdown_to_html(chs[i].body)]>> \o ChapterItems(chs, i + 1)

\* convert_md_to_epub(md_path, epub_path): whether it raised, and the
\* package epub.write_epub wrote
convert_md_to_epub(text) ==
    LET chs == split_into_chapters(text)
        spine_items == ChapterItems(chs, 1)
    IN IF chs = <<>> \/ spine_items = <<>>
       THEN [raised |-> TRUE, chapters |-> chs, file |-> NoFile]
       ELSE [raised |-> FALSE, chapters |-> chs,
             file |-> [exists |-> TRUE,
                       spine |-> spine_items,
                       toc |-> spine_items,
                       nav |-> [k \in 1..Len(spine_items) |->
                                  [href |-> spine_items[k].file_name,
                                   title |-> spine_items[k].title]]]]

\* a front-matter block
FrontMatter == <<L_rule, L_title_X, L_rule>>

BodyLines == {L_A, L_B, L_hello, L_empty, L_spaces, L_ref}

\* the Markdown files the tool is run on: with or without a front-matter
\* block, then up to MaxBodyLines lines
MdFiles ==
    {Join(<<NL>>, fm \o body) :
        fm \in {<<>>, FrontMatter},
        body \in UNION {[1..n -> BodyLines] : n \in 0..MaxBodyLines}}

InitMd ==
    /\ pc = "start"
    /\ content \in MdFiles
    /\ chapters = <<>>
    /\ md_exists \in BOOLEAN
    /\ epub_file = NoFile
    /\ error = FALSE
    /\ exit_code = -1
    /\ SlugIdle /\ SpineIdle /\ CoverIdle /\ ExportIdle
    /\ ConvIdle /\ CollectIdle

\* main: if not os.path.exists(args.input): sys.exit(1)
MainMissingInput ==
    /\ pc = "start"
    /\ ~md_exists
    /\ exit_code' = 1
    /\ pc' = "exit"
    /\ UNCHANGED <<convVars, collectVars, content, chapters, md_exists, epub_file, error,
                   slugVars, spineVars, coverVars, exportVars>>

\* main: the call of convert_md_to_epub inside try
MainConvert ==
    /\ pc = "start"
    /\ md_exists
    /\ LET r == convert_md_to_epub(content)
       IN /\ chapters' = r.chapters
          /\ epub_file' = r.file
          /\ error' = r.raised
    /\ pc' = "converted"
    /\ UNCHANGED <<convVars, collectVars, content, md_exists, exit_code, slugVars, spineVars, coverVars, exportVars>>

\* main: except Exception: sys.exit(1); the tool exits with 0 otherwise
MainExit ==
    /\ pc = "converted"
    /\ exit_code' = IF error THEN 1 ELSE 0
    /\ pc' = "exit"
    /\ UNCHANGED <<convVars, collectVars, content, chapters, md_exists, epub_file, error,
                   slugVars, spineVars, coverVars, exportVars>>

NextMd == MainMissingInput \/ MainConvert \/ MainExit

SpecMd == InitMd /\ [][NextMd]_vars

(***************************************************************************)
(* Claims about convert_md_to_epub.                                        *)
(***************************************************************************)
FrontMatterText == Join(<<NL>>, FrontMatter)

\* the text is a front-matter block followed by white space only
OnlyFrontMatter(text) ==
    /\ IsPrefix(FrontMatterText, text)
    /\ IsBlank(SubSeq(text, Len(FrontMatterText) + 1, Len(text)))

\* C10: for a document that is a front-matter block followed only by white
\* space, convert_md_to_epub fails, the tool exits with a non-zero code and
\* no package file is created.
C10_Claim ==
    (pc = "exit" /\ md_exists /\ OnlyFrontMatter(content)) =>
        /\ error
        /\ exit_code # 0
        /\ ~epub_file.exists

\* a chapter whose trimmed content and whose converted HTML are not empty
HasContent(ch) ==
    /\ ~IsBlank(ch.body)
    /\ ~IsBlank(markdown_to_html(ch.body))

\* the chapters of the splitter that have content, in the splitter's order
ChaptersWithContent == SelectSeq(chapters, HasContent)

\* C11: a package is written exactly when some chapter has content; it has
\* one content unit per chapter with content, in the order of the splitter,
\* each in a file of its own, and the spine, the table of contents and the
\* entries of the navigation document are that same sequence.
C11_Claim ==
    pc = "converted" =>
        /\ error <=> ChaptersWithContent = <<>>
        /\ ~error =>
             LET kept == ChaptersWithContent
                 units == epub_file.spine
             IN /\ epub_file.exists
                /\ Len(units) = Len(kept)
                /\ \A k \in 1..Len(kept) :
                      /\ units[k].title = kept[k].title
                      /\ units[k].body = markdown_to_html(kept[k].body)
                /\ \A k, h \in 1..Len(units) :
                      units[k].file_name = units[h].file_name => k = h
                /\ epub_file.toc = units
                /\ Len(epub_file.nav) = Len(units)
                /\ \A k \in 1..Len(units) :
                      /\ epub_file.nav[k].href = units[k].file_name
                      /\ epub_file.nav[k].title = units[k].title

C11_Witness ==
    /\ pc = "converted"
    /\ ~error
    /\ Len(chapters) = 3
    /\ Len(epub_file.spine) = 3
    /\ epub_file.spine[1].title = <<"A">>
    /\ epub_file.spine[2].title = <<"B">>

\* a chapter without content is skipped, and the conversion then fails for
\* want of any chapter
C11_WitnessSkipped ==
    /\ pc = "converted"
    /\ content = L_ref
    /\ error

(***************************************************************************)
(* epub2md.convert_epub_to_single_md and epub2md.convert_epub_to_split_md  *)
(*                                                                         *)
(* The content of a document item is a list of elements [tag, text]: a     *)
(* <title> in the head, and <h1>, <h2> and <p> in the body.  What is       *)
(* written to a file is a list of entries, one per call of write:          *)
(* [kind, seg, text], kind naming the statement that wrote it and seg the  *)
(* position in the traversal of the item it was written for (0 for the     *)
(* lines of the book itself).                                              *)
(***************************************************************************)
E_h1 == [tag |-> "h1", text |-> <<"A">>]
E_h2 == [tag |-> "h2", text |-> <<"C">>]
E_title == [tag |-> "title", text |-> <<"A", " ", "C">>]
E_p == [tag |-> "p", text |-> L_hello]

\* soup.find(selector): the first element with that tag, 0 when there is none
FindTag(frag, tag) == FirstOf({i \in 1..Len(frag) : frag[i].tag = tag})

RECURSIVE TitleFrom(_, _)
\* for selector in ["h1", "title", "h2"]: if el and el.get_text(strip=True)
TitleFrom(frag, selectors) ==
    IF selectors = <<>> THEN None
    ELSE LET el == FindTag(frag, Head(selectors))
         IN IF el # 0 /\ Strip(frag[el].text) # <<>>
            THEN Some(Strip(frag[el].text))
            ELSE TitleFrom(frag, Tail(selectors))

extract_title_from_html(frag) == TitleFrom(frag, <<"h1", "title", "h2">>)

\* what html2text gives for one element: a heading line or a paragraph,
\* each followed by a blank line; the head of the document gives nothing
HandleElement(el) ==
    CASE el.tag = "h1" -> <<"#", " ">> \o el.text \o <<NL, NL>>
      [] el.tag = "h2" -> <<"#", "#", " ">> \o el.text \o <<NL, NL>>
      [] el.tag = "p" -> el.text \o <<NL, NL>>
      [] OTHER -> <<>>

\* md = converter.handle(html)
Handle(frag) == Flatten([i \in 1..Len(frag) |-> HandleElement(frag[i])])

\* html = rewrite_img_paths_in_html(html, image_map), if image_map
RewriteFragment(frag, d) ==
    [i \in 1..Len(frag) |->
        [frag[i] EXCEPT !.text = rewrite_img_paths_in_html(@, d)]]

\* re.search(r"^#\s", md.lstrip(), flags=re.M): with re.M, ^ matches at the
\* start of every line
SearchTopHeading(md) ==
    LET t == LStrip(md)
    IN \E i \in 1..(Len(t) - 1) :
          /\ i = 1 \/ t[i - 1] = NL
          /\ t[i] = "#"
          /\ IsSpace(t[i + 1])

\* book.get_metadata("DC", "title")[0][0]
BookTitle == <<"B">>

S_cover_dot == S_cover \o <<".">>

CoverRel_First(d) == IF d = <<>> THEN None ELSE Some(d[1].val)
\* for rel in image_map.values():
\*     if os.path.basename(rel).lower().startswith("cover."): cover_rel = rel
CoverRel(d) ==
    LET hits == {i \in 1..Len(d) : IsPrefix(S_cover_dot, Lower(Basename(d[i].val)))}
    IN IF hits = {} THEN None ELSE Some(d[FirstOf(hits)].val)

Entry(kind, seg, text) == [kind |-> kind, seg |-> seg, text |-> text]

\* out.write(f"# {book_title}\n\n"), then the banner:
\* if cover_banner and image_map: ... if cover_rel: write(f"![]({cover_rel})\n\n")
HeadWrites(banner, d) ==
    <<Entry("title", 0, <<"#", " ">> \o BookTitle \o <<NL, NL>>)>>
        \o (IF banner /\ d # <<>> /\ Truthy(CoverRel(d))
            THEN <<Entry("banner", 0,
                         <<"!", "[", "]", "(">> \o CoverRel(d).val \o <<")", NL, NL>>)>>
            ELSE <<>>)

\* f"{n:02d}"
TwoDigits(n) == (IF n < 10 THEN <<"0">> ELSE <<>>) \o Str(n)

prefix == <<"c", "h", "a", "p", "i", "t", "r", "e">>
S_md == <<".", "m", "d">>

\* one iteration of "for item in iter_spine_items(book)" in single mode:
\* the sub-heading, if any, the converted content and a blank line
SingleWrites(frag, k, d) ==
    LET h == IF d # <<>> THEN RewriteFragment(frag, d) ELSE frag
        md == Handle(h)
        seg_title == extract_title_from_html(h)
    IN (IF Truthy(seg_title) /\ ~SearchTopHeading(md)
        THEN <<Entry("heading", k, <<"#", "#", " ">> \o seg_title.val \o <<NL, NL>>)>>
        ELSE <<>>)
         \o <<Entry("content", k, md), Entry("sep", k, <<NL, NL>>)>>

\* image_map = export_images(book, outdir, imgdir=imgdir) if extract_images
ExportIf(ext, ms, imgs, dir) ==
    IF ext THEN export_images(ms, imgs, dir) ELSE [mapping |-> <<>>, written |-> <<>>]

\* convert_epub_to_single_md: the images exported, the traversal of the
\* spine, what was written to md_path, and whether the traversal raised
convert_epub_to_single_md(ds, fr, sp, ms, imgs, dir, ext, banner) ==
    LET exp == ExportIf(ext, ms, imgs, dir)
        it == iter_spine_items(ds, sp)
    IN [mapping |-> exp.mapping,
        written |-> exp.written,
        traversal |-> it,
        out |-> HeadWrites(banner, exp.mapping)
                  \o Flatten([k \in 1..Len(it.items) |->
                                SingleWrites(fr[it.items[k]], k, exp.mapping)]),
        raised |-> it.raised]

\* title = extract_title_from_html(html) or f"Chapitre {chapter_num}"
TitleOr(h, chapter_num) ==
    IF Truthy(extract_title_from_html(h))
    THEN extract_title_from_html(h).val
    ELSE <<"C", "h", "a", "p", "i", "t", "r", "e", " ">> \o Str(chapter_num)

\* md_filename = f"{prefix}-{chapter_num:02d}-{base_slug}.md"
MdFilename(title, chapter_num) ==
    LET numbered == prefix \o <<"-">> \o TwoDigits(chapter_num)
    IN numbered \o <<"-">> \o slugify(title, numbered) \o S_md

\* one iteration of the loop in split mode: the chapter file written and
\* the line appended to index_lines
SplitChapter(frag, chapter_num, d) ==
    LET h == IF d # <<>> THEN RewriteFragment(frag, d) ELSE frag
        title == TitleOr(h, chapter_num)
        md_filename == MdFilename(title, chapter_num)
        md == Handle(h)
    IN [file |-> [name |-> md_filename,
                  writes |->
                      (IF ~SearchTopHeading(md)
                       THEN <<Entry("heading", chapter_num,
                                    <<"#", " ">> \o title \o <<NL, NL>>)>>
                       ELSE <<>>)
                        \o <<Entry("content", chapter_num, md)>>],
        line |-> <<"-", " ", "[">> \o title \o <<"]", "(">> \o md_filename \o <<")">>]

\* convert_epub_to_split_md: as above, with the chapter files, index.md and
\* the count returned; an exception leaves no index and returns nothing
convert_epub_to_split_md(ds, fr, sp, ms, imgs, dir, ext, banner) ==
    LET exp == ExportIf(ext, ms, imgs, dir)
        it == iter_spine_items(ds, sp)
        chs == [k \in 1..Len(it.items) |-> SplitChapter(fr[it.items[k]], k, exp.mapping)]
        index_lines == [k \in 1..Len(chs) |-> chs[k].line]
    IN [mapping |-> exp.mapping,
        written |-> exp.written,
        traversal |-> it,
        files |-> [k \in 1..Len(chs) |-> chs[k].file],
        index |-> IF it.raised THEN NoIndex
                  ELSE [exists |-> TRUE,
                        writes |-> HeadWrites(banner, exp.mapping)
                                     \o <<Entry("links", 0,
                                                Join(<<NL>>, index_lines) \o <<NL>>)>>],
        count |-> IF it.raised THEN -1 ELSE Len(chs),
        raised |-> it.raised]

\* the documents of a book: a heading then text, text then a heading, a
\* second-level heading, a title in the head only, and text alone
HtmlDocs ==
    {<<E_h1, E_p>>, <<E_p, E_h1>>, <<E_h2, E_p>>, <<E_title, E_p>>, <<E_p>>}

\* books without images: up to MaxFrags documents, up to MaxRefs spine entries
InitChapters ==
    /\ pc = "start"
    /\ docs \in {[i \in 1..n |-> i] : n \in 0..MaxFrags}
    /\ frags \in [1..Len(docs) -> HtmlDocs]
    /\ spine \in UNION {[1..n -> SpineEntries] : n \in 0..MaxRefs}
    /\ spineOut = <<>>
    /\ split \in BOOLEAN
    /\ extract_images = TRUE
    /\ cover_banner = TRUE
    /\ imgdir = D_images
    /\ image_map = <<>> /\ written = <<>> /\ html = <<>> /\ rewritten = <<>>
    /\ out = <<>> /\ chapter_files = <<>> /\ index = NoIndex /\ count = -1
    /\ crashed = FALSE
    /\ SplitIdle /\ SlugIdle /\ CoverIdle /\ MdIdle /\ CollectIdle

\* books of one document with up to MaxAssets images
InitBanner ==
    /\ pc = "start"
    /\ docs = <<1>>
    /\ frags = <<<<E_h1, E_p>>>>
    /\ spine \in {<<>>, <<[kind |-> "pair", ref |-> 1]>>}
    /\ spineOut = <<>>
    /\ metas \in {ms \in MetaLists : Len(ms) <= 1}
    /\ images \in {imgs \in ImageLists : Len(imgs) <= MaxAssets}
    /\ cover = 0
    /\ split \in BOOLEAN
    /\ extract_images \in BOOLEAN
    /\ cover_banner \in BOOLEAN
    /\ imgdir = D_images
    /\ image_map = <<>> /\ written = <<>> /\ html = <<>> /\ rewritten = <<>>
    /\ out = <<>> /\ chapter_files = <<>> /\ index = NoIndex /\ count = -1
    /\ crashed = FALSE
    /\ SplitIdle /\ SlugIdle /\ MdIdle /\ CollectIdle

\* main: convert_epub_to_single_md(...), when args.split is not set
ConvertSingle ==
    /\ pc = "start"
    /\ ~split
    /\ LET r == convert_epub_to_single_md(docs, frags, spine, metas, images, imgdir,
                                          extract_images, cover_banner)
       IN /\ image_map' = r.mapping
          /\ written' = r.written
          /\ spineOut' = r.traversal
          /\ out' = r.out
          /\ crashed' = r.raised
    /\ cover' = IF extract_images THEN detect_cover_item(metas, images) ELSE 0
    /\ pc' = "done"
    /\ UNCHANGED <<docs, spine, metas, images, imgdir, html, rewritten, frags, split,
                   extract_images, cover_banner, chapter_files, index, count,
                   splitVars, slugVars, mdVars, collectVars>>

\* main: convert_epub_to_split_md(...), when args.split is set
ConvertSplit ==
    /\ pc = "start"
    /\ split
    /\ LET r == convert_epub_to_split_md(docs, frags, spine, metas, images, imgdir,
                                         extract_images, cover_banner)
       IN /\ image_map' = r.mapping
          /\ written' = r.written
          /\ spineOut' = r.traversal
          /\ chapter_files' = r.files
          /\ index' = r.index
          /\ count' = r.count
          /\ crashed' = r.raised
    /\ cover' = IF extract_images THEN detect_cover_item(metas, images) ELSE 0
    /\ pc' = "done"
    /\ UNCHANGED <<docs, spine, metas, images, imgdir, html, rewritten, frags, split,
                   extract_images, cover_banner, out,
                   splitVars, slugVars, mdVars, collectVars>>

NextConvert == ConvertSingle \/ ConvertSplit

SpecChapters == InitChapters /\ [][NextConvert]_vars

SpecBanner == InitBanner /\ [][NextConvert]_vars

(***************************************************************************)
(* Claims about the two conversions.                                       *)
(***************************************************************************)
IsSuffix(p, t) == Len(p) <= Len(t) /\ SubSeq(t, Len(t) - Len(p) + 1, Len(t)) = p

\* <prefix>-NN-<slug>.md, NN the two digits of n
NamedByPosition(file_name, n) ==
    /\ IsPrefix(prefix \o <<"-">> \o TwoDigits(n) \o <<"-">>, file_name)
    /\ IsSuffix(S_md, file_name)
    /\ Len(file_name) > Len(prefix) + 4 + Len(S_md)

\* the lines of the list of links of index.md
LinkLines ==
    LET links == SelectSeq(index.writes, LAMBDA w : w.kind = "links")
    IN IF links = <<>> THEN <<>>
       ELSE SelectSeq(Split(links[1].text, NL),
                      LAMBDA l : IsPrefix(<<"-", " ", "[">>, l))

ChapterFilesAsClaimed ==
    LET N == Len(spineOut.items)
    IN /\ Len(chapter_files) = N
       /\ \A k \in 1..N : NamedByPosition(chapter_files[k].name, k)
       /\ \A k, h \in 1..N : chapter_files[k].name = chapter_files[h].name => k = h
       /\ index.exists
       /\ Len(LinkLines) = N
       /\ \A k \in 1..N :
            IsSuffix(<<"]", "(">> \o chapter_files[k].name \o <<")">>, LinkLines[k])
       /\ count = N

\* C12: in split mode there is one chapter file per fragment of the
\* traversal, named <prefix>-NN-<slug>.md with NN its position, all names
\* distinct; the index has one link line per chapter in that order, and the
\* count returned is the number of fragments.
C12_Claim == (pc = "done" /\ split) => ChapterFilesAsClaimed

\* the same for the conversions whose traversal of the spine raised nothing
C12_WhenTraversed == (pc = "done" /\ split /\ ~crashed) => ChapterFilesAsClaimed


\* the files export_images wrote under a name that is not the item's own
Renamed ==
    {i \in 1..Len(written) :
        Basename(written[i].path) # Basename(images[written[i].item].file_name)}

\* the banner lines written to the single output or to the index
BannerLines ==
    SelectSeq(out, LAMBDA w : w.kind = "banner")
        \o SelectSeq(index.writes, LAMBDA w : w.kind = "banner")

\* C13: at most one exported asset is renamed, and to cover.<ext>; when
\* detect_cover_item selects no asset, none is renamed and no banner line is
\* written, in single and in split mode.
C13_Claim ==
    pc = "done" =>
        /\ Cardinality(Renamed) <= 1
        /\ \A i \in Renamed : IsPrefix(S_cover_dot, Basename(written[i].path))
        /\ detect_cover_item(metas, images) = 0 =>
             /\ Renamed = {}
             /\ BannerLines = <<>>

C13_Witness ==
    /\ pc = "done"
    /\ split
    /\ ~crashed
    /\ extract_images /\ cover_banner
    /\ detect_cover_item(metas, images) = 0
    /\ Len(written) = 2
    /\ Renamed = {}
    /\ index.exists
    /\ BannerLines = <<>>


\* the converted content, leading white space ignored, begins with a
\* top-level heading line
BeginsWithTopHeading(md) ==
    LET t == LStrip(md)
    IN Len(t) >= 2 /\ t[1] = "#" /\ IsSpace(t[2])

\* the sub-heading line written for the k-th fragment of the traversal,
\* just before its content
SubHeadingWritten(k) ==
    \E i \in 1..(Len(out) - 1) :
        /\ out[i].kind = "heading" /\ out[i].seg = k
        /\ out[i + 1].kind = "content" /\ out[i + 1].seg = k

\* C15: in single mode the sub-heading of a fragment is written exactly when
\* the fragment has a title and its converted content does not begin with a
\* top-level heading line, wherever else such a line may occur.
C15_Claim ==
    (pc = "done" /\ ~split) =>
        \A k \in 1..Len(spineOut.items) :
            LET frag == frags[spineOut.items[k]]
            IN SubHeadingWritten(k) <=>
                 /\ Truthy(extract_title_from_html(frag))
                 /\ ~BeginsWithTopHeading(Handle(frag))


\* the path, relative to the output, of the file the item detect_cover_item
\* returned was written to
CoverPaths == {written[i].path : i \in {j \in 1..Len(written) : written[j].item = cover}}
OtherPaths == {written[i].path : i \in {j \in 1..Len(written) : written[j].item # cover}}

\* ![](<path>) and a blank line
IsBannerFor(text, path) == text = <<"!", "[", "]", "(">> \o path \o <<")", NL, NL>>

\* C17: a banner line, in the single output or in the index, refers to the
\* path the detected cover was exported to, which is the path of no other
\* exported asset.
C17_Claim ==
    pc = "done" =>
        \A b \in 1..Len(BannerLines) :
            /\ cover # 0
            /\ \E path \in CoverPaths : IsBannerFor(BannerLines[b].text, path)
            /\ \A path \in OtherPaths : ~IsBannerFor(BannerLines[b].text, path)

(***************************************************************************)
(* md2epub.collect_images_from_markdown                                    *)
(*                                                                         *)
(* matches holds the img_path of each image reference of the text, in the  *)
(* order re.findall gives them; on_disk is the set of those at which a     *)
(* file exists.  The image_map built is md_image_map.                      *)
(***************************************************************************)
\* image_map.values()
Values(d) == {d[i].val : i \in 1..Len(d)}

\* name, ext = os.path.splitext(original_name)
Stem(p) == SubSeq(p, 1, Len(p) - Len(Ext(p)))

\* f"{name}_{counter}{ext}"
Suffixed(original_name, counter) ==
    Stem(original_name) \o <<"_">> \o Str(counter) \o Ext(original_name)

RECURSIVE NextFree(_, _, _)
\* while img_name in image_map.values(): ...; counter += 1
NextFree(original_name, counter, taken) ==
    IF Suffixed(original_name, counter) \notin taken
    THEN Suffixed(original_name, counter)
    ELSE NextFree(original_name, counter + 1, taken)

UniqueName_Basename(original_name, taken) == original_name
\* the name the image gets in the package
UniqueName(original_name, taken) ==
    IF original_name \notin taken THEN original_name
    ELSE NextFree(original_name, 1, taken)

R_a == <<"a", ".", "p", "n", "g">>
R_x_a == <<"x", "/", "a", ".", "p", "n", "g">>
R_a_1 == <<"a", "_", "1", ".", "p", "n", "g">>
R_y_a_1 == <<"y", "/", "a", "_", "1", ".", "p", "n", "g">>
R_b == <<"/", "b">>

ImagePaths == {R_a, R_x_a, R_a_1, R_y_a_1, R_b}

InitCollect ==
    /\ pc = "start"
    /\ matches \in UNION {[1..n -> ImagePaths] : n \in 0..MaxMatches}
    /\ on_disk \in SUBSET ImagePaths
    /\ md_image_map = <<>>
    /\ next_match = 1
    /\ SplitIdle /\ SlugIdle /\ SpineIdle /\ CoverIdle /\ ExportIdle /\ MdIdle
    /\ ConvIdle

\* an iteration of the loop for a path at which a file exists
CollectExisting ==
    /\ pc = "start"
    /\ next_match <= Len(matches)
    /\ matches[next_match] \in on_disk
    /\ LET img_path == matches[next_match]
           img_name == UniqueName(Basename(img_path), Values(md_image_map))
       IN md_image_map' = DictSet(md_image_map, img_path, img_name)
    /\ next_match' = next_match + 1
    /\ UNCHANGED <<pc, matches, on_disk, splitVars, slugVars, spineVars, coverVars,
                   exportVars, mdVars, convVars>>

\* an iteration of the loop for a path at which there is no file
CollectMissing ==
    /\ pc = "start"
    /\ next_match <= Len(matches)
    /\ matches[next_match] \notin on_disk
    /\ next_match' = next_match + 1
    /\ UNCHANGED <<pc, matches, on_disk, md_image_map, splitVars, slugVars, spineVars,
                   coverVars, exportVars, mdVars, convVars>>

\* return image_map
CollectReturn ==
    /\ pc = "start"
    /\ next_match > Len(matches)
    /\ pc' = "returned"
    /\ UNCHANGED <<collectVars, splitVars, slugVars, spineVars, coverVars, exportVars,
                   mdVars, convVars>>

NextCollect == CollectExisting \/ CollectMissing \/ CollectReturn

SpecCollect == InitCollect /\ [][NextCollect]_vars

(***************************************************************************)
(* Claims about collect_images_from_markdown.                              *)
(***************************************************************************)
\* the references handled so far
Discovered == {matches[i] : i \in 1..(next_match - 1)}

Keys(d) == {d[i].key : i \in 1..Len(d)}

\* the base name of the reference, or that name with _<counter> after its stem
NamedAfter(img_name, img_path) ==
    \/ img_name = Basename(img_path)
    \/ \E n \in 1..MaxMatches : img_name = Suffixed(Basename(img_path), n)

\* C16: after any number of references, the map has an entry exactly for
\* the references handled whose file exists; no two references have the
\* same package name; a name is the base name of its reference, with
\* _<counter> after the stem when that name was taken.
C16_Claim ==
    /\ Keys(md_image_map) = Discovered \cap on_disk
    /\ \A i, j \in 1..Len(md_image_map) :
         md_image_map[i].val = md_image_map[j].val => i = j
    /\ \A i, j \in 1..Len(md_image_map) :
         md_image_map[i].key = md_image_map[j].key => i = j
    /\ \A i \in 1..Len(md_image_map) :
         NamedAfter(md_image_map[i].val, md_image_map[i].key)

C16_Witness ==
    /\ pc = "returned"
    /\ matches = <<R_a, R_x_a, R_a>>
    /\ on_disk = {R_a, R_x_a}
    /\ DictGet(md_image_map, R_x_a) = R_a_1
    /\ DictGet(md_image_map, R_a) = <<"a", "_", "2", ".", "p", "n", "g">>

====
